---- MODULE Spec2Model ----
(***************************************************************************)
(* The claim workflow of the medical-shop service: the route               *)
(* POST /recommendations/<id>/claim (app.py, claim_recommendation_route),  *)
(* the storage operations it calls (db.py) and the WhatsApp dispatcher     *)
(* (app.py, send_whatsapp_message).                                        *)
(*                                                                         *)
(* Every request is served by its own worker; the workers share only the   *)
(* MySQL tables.  Each db.py call opens its own connection, runs one       *)
(* statement, commits and closes, so a request's steps interleave with     *)
(* other requests' steps between any two db.py calls.                      *)
(*                                                                         *)
(* Fault model: the writes (claim_recommendation,                          *)
(* update_recommendation_item_dates) and the farmer lookup may raise; a    *)
(* worker may be abandoned between two steps.  The plain reads of          *)
(* medicine_recommendations and recommendation_items return the rows.      *)
(***************************************************************************)
EXTENDS Integers, Sequences, FiniteSets, TLC

(***************************************************************************)
(* Bounds of the model.                                                    *)
(***************************************************************************)
\* number of claim requests served in one behaviour
NumReqs == 2
\* largest WHATSAPP_MAX_RETRIES explored by the dispatcher specification
MaxRetriesBound == 4

(***************************************************************************)
(* Program constants.                                                      *)
(***************************************************************************)
\* SQL NULL / Python None in an integer or date column
Null == -1
\* WHATSAPP_MAX_RETRIES default
DEFAULT_MAX_RETRIES == 3
\* retry_delay = 2 (seconds)
BASE_RETRY_DELAY == 2

Reqs == 1..NumReqs
Shops == {1, 2}
NullText == "<NULL>"

(***************************************************************************)
(* Calendar dates.  A date string 'YYYY-MM-DD' is the triple <<y, m, d>>   *)
(* of its fields; <<>> is a missing or empty string.  A date value is its  *)
(* proleptic Gregorian ordinal, as datetime.date keeps it; adding a        *)
(* timedelta(days=k) adds k to the ordinal.                                *)
(***************************************************************************)
NoDateStr == <<>>

is_leap(y) == y % 4 = 0 /\ (y % 100 # 0 \/ y % 400 = 0)

DAYS_IN_MONTH == <<31, 28, 31, 30, 31, 30, 31, 31, 30, 31, 30, 31>>

DAYS_BEFORE_MONTH == <<0, 31, 59, 90, 120, 151, 181, 212, 243, 273, 304, 334>>

days_in_month(y, m) == IF m = 2 /\ is_leap(y) THEN 29 ELSE DAYS_IN_MONTH[m]

days_before_month(y, m) ==
    DAYS_BEFORE_MONTH[m] + (IF m > 2 /\ is_leap(y) THEN 1 ELSE 0)

days_before_year(y) ==
    (y - 1) * 365 + ((y - 1) \div 4) - ((y - 1) \div 100) + ((y - 1) \div 400)

\* date(y, m, d).toordinal()
ymd2ord(s) == days_before_year(s[1]) + days_before_month(s[1], s[2]) + s[3]

\* date.fromordinal(n) followed by isoformat(): the fields of 'YYYY-MM-DD'
ord2ymd(n) ==
    LET n0    == n - 1
        n400  == n0 \div 146097
        r400  == n0 % 146097
        n100  == r400 \div 36524
        r100  == r400 % 36524
        n4    == r100 \div 1461
        r4    == r100 % 1461
        n1    == r4 \div 365
        r1    == r4 % 365
        year  == n400 * 400 + 1 + n100 * 100 + n4 * 4 + n1
        leap  == n1 = 3 /\ (n4 # 24 \/ n100 = 3)
        month == (r1 + 50) \div 32
        prec  == DAYS_BEFORE_MONTH[month] + (IF month > 2 /\ leap THEN 1 ELSE 0)
        back  == prec > r1
        m2    == IF back THEN month - 1 ELSE month
        prec2 == IF back
                 THEN prec - (DAYS_IN_MONTH[m2] + (IF m2 = 2 /\ leap THEN 1 ELSE 0))
                 ELSE prec
    IN  IF n1 = 4 \/ n100 = 4
        THEN <<year - 1, 12, 31>>
        ELSE <<year, m2, r1 - prec2 + 1>>

\* datetime.strptime(s, '%Y-%m-%d') succeeds
strptime_ok(s) ==
    /\ Len(s) = 3
    /\ s[1] \in 1..9999
    /\ s[2] \in 1..12
    /\ s[3] \in 1..days_in_month(s[1], s[2])

\* start_date + timedelta(days=k)
date_plus(ord, k) == ord + k

\* The JSON bodies of the requests: data.get('start_date') and
\* data.get('notes', '').  The start date is missing, not a calendar date,
\* or valid.
Bodies ==
    {[start_date |-> NoDateStr,        notes |-> ""],
     [start_date |-> <<2024, 2, 30>>,  notes |-> ""],
     [start_date |-> <<2024, 1, 1>>,   notes |-> ""],
     [start_date |-> <<2024, 3, 10>>,  notes |-> "urgent"]}

(***************************************************************************)
(* The issued data: the recommendations, unclaimed, and their items in id  *)
(* order.  Recommendation 5 has no items; no recommendation has id 6.      *)
(***************************************************************************)
ISSUED_ITEMS == <<
    [recommendation_id |-> 1, treatment_days |-> 5],
    [recommendation_id |-> 1, treatment_days |-> 10],
    [recommendation_id |-> 1, treatment_days |-> 3],
    [recommendation_id |-> 2, treatment_days |-> 1],
    [recommendation_id |-> 2, treatment_days |-> 7],
    [recommendation_id |-> 2, treatment_days |-> 0],
    [recommendation_id |-> 3, treatment_days |-> 2],
    [recommendation_id |-> 3, treatment_days |-> Null],
    [recommendation_id |-> 4, treatment_days |-> 0] >>

RecIds == {1, 2, 3, 4, 5}
ItemIds == 1..Len(ISSUED_ITEMS)
MissingRecId == CHOOSE n \in 1..(Cardinality(RecIds) + 1) : n \notin RecIds
RequestRecIds == RecIds \cup {MissingRecId}

VARIABLES
    WHATSAPP_ENABLED,           \* configuration, app.py:32
    WHATSAPP_MAX_RETRIES,       \* configuration, app.py:31
    medicine_recommendations,   \* table: id -> row (committed state)
    recommendation_items,       \* table: id -> row (committed state)
    row_lock,                   \* recommendation id -> request holding its row lock, 0 if none
    clock,                      \* datetime.now(), a logical time
    pc,                         \* request -> its position in the route
    req,                        \* request -> its inputs and local variables
    response,                   \* request -> the HTTP response it returned
    send,                       \* the locals of a call of send_whatsapp_message followed step by step
    gateway                     \* the outcomes the gateway gave to that call's requests.post calls

\* the state of the claim route
route_vars == <<medicine_recommendations, recommendation_items, row_lock, clock,
                pc, req, response>>

vars == <<WHATSAPP_ENABLED, WHATSAPP_MAX_RETRIES, medicine_recommendations,
          recommendation_items, row_lock, clock, pc, req, response, send, gateway>>

(***************************************************************************)
(* send_whatsapp_message.  What one requests.post call can end in: an HTTP *)
(* status, requests.exceptions.Timeout, ConnectionError, or another        *)
(* RequestException.                                                       *)
(***************************************************************************)
Status(c) == [kind |-> "status", code |-> c]
Timeout == [kind |-> "Timeout", code |-> 0]
ConnectionError == [kind |-> "ConnectionError", code |-> 0]
RequestException == [kind |-> "RequestException", code |-> 0]

GatewayOutcomes ==
    {Status(200), Status(201), Status(429), Status(500),
     Timeout, ConnectionError, RequestException}

\* a message: its text and the number formatted into it
Msg(t, k) == [text |-> t, n |-> k]
NoMsg == Msg("", 0)

\* a delay in seconds, the fraction <<numerator, denominator>> in lowest terms
RECURSIVE Lowest(_)
Lowest(q) ==
    IF q[1] % 2 = 0 /\ q[2] % 2 = 0 THEN Lowest(<<q[1] \div 2, q[2] \div 2>>) ELSE q

Times(q, num, den) == Lowest(<<q[1] * num, q[2] * den>>)


\* the locals of send_whatsapp_message on entering the retry loop
SendStart ==
    [attempt     |-> 0,
     retry_delay |-> <<BASE_RETRY_DELAY, 1>>,
     http_calls  |-> 0,
     waits       |-> <<>>,
     returned    |-> "running",
     success     |-> FALSE,
     message     |-> NoMsg]

\* send_whatsapp_message has not been called
NotCalled == [SendStart EXCEPT !.returned = "not called"]

SendReturn(s, ok, msg) ==
    [s EXCEPT !.returned = "pair", !.success = ok, !.message = msg]

\* time.sleep(d), then the next iteration of the loop
SendSleep(s, d) == [s EXCEPT !.waits = Append(@, d), !.attempt = @ + 1]

\* the delay after a 429 not doubled
RateLimitDelay_NotDoubled(retry_delay) == retry_delay

\* the delay slept after a 429: time.sleep(retry_delay * 2)
RateLimitDelay(retry_delay) == Times(retry_delay, 2, 1)

\* the delay doubled after a timeout
Backoff_Doubling(retry_delay) == Times(retry_delay, 2, 1)

\* retry_delay *= 1.5
Backoff(retry_delay) == Times(retry_delay, 3, 2)

\* response.status_code == 200
IsSuccessStatus(code) == code = 200

\* server errors retried like a rate limit
IsRateLimitStatus_OrServerError(code) == code = 429 \/ code >= 500

\* response.status_code == 429
IsRateLimitStatus(code) == code = 429

\* every attempt taken to have another one after it
IsLastAttempt_Never(attempt, max_retries) == FALSE

\* the negation of `attempt < max_retries - 1`
IsLastAttempt(attempt, max_retries) == ~(attempt < max_retries - 1)

\* One iteration of `for attempt in range(max_retries)` whose requests.post
\* ends in outcome o.
SendStep(s, o, max_retries) ==
    LET c    == [s EXCEPT !.http_calls = @ + 1]
        last == IsLastAttempt(s.attempt, max_retries)
    IN  CASE o.kind = "status" /\ IsSuccessStatus(o.code) ->
                SendReturn(c, TRUE, Msg("WhatsApp message sent successfully (attempt)", s.attempt + 1))
          [] o.kind = "status" /\ ~IsSuccessStatus(o.code) /\ IsRateLimitStatus(o.code) ->
                IF ~last
                THEN SendSleep(c, RateLimitDelay(s.retry_delay))
                ELSE [c EXCEPT !.attempt = @ + 1]
          [] o.kind = "status" /\ ~IsSuccessStatus(o.code) /\ ~IsRateLimitStatus(o.code) ->
                SendReturn(c, FALSE, Msg("Failed to send WhatsApp message: HTTP", o.code))
          [] o.kind = "Timeout" ->
                IF ~last
                THEN [SendSleep(c, s.retry_delay) EXCEPT !.retry_delay = Backoff(@)]
                ELSE SendReturn(c, FALSE, Msg("WhatsApp API timeout after attempts", max_retries))
          [] o.kind = "ConnectionError" ->
                IF ~last
                THEN SendSleep(c, s.retry_delay)
                ELSE SendReturn(c, FALSE, Msg("WhatsApp API connection failed after attempts", max_retries))
          [] o.kind = "RequestException" ->
                SendReturn(c, FALSE, Msg("Network error", 0))

\* the call that never returns once the loop has run out of attempts
SendFallOff_Stuck(s) == s

\* the loop ran out of attempts without a return statement: the function
\* falls off its end and returns None
SendFallOff(s) == [s EXCEPT !.returned = "None"]

\* the enabled flag not looked at
SendDisabled_Ignored(s) == s

\* `if not WHATSAPP_ENABLED: return False, ...`
SendDisabled(s) ==
    SendReturn(s, FALSE, Msg("WhatsApp messaging is disabled in configuration", 0))

RECURSIVE SendLoop(_, _, _)
SendLoop(s, outcomes, max_retries) ==
    IF s.returned # "running" THEN s
    ELSE IF ~(s.attempt < max_retries) THEN SendFallOff(s)
    ELSE SendLoop(SendStep(s, outcomes[s.attempt + 1], max_retries), outcomes, max_retries)

\* send_whatsapp_message(...) when the gateway answers the successive calls
\* with `outcomes`
send_whatsapp_message(enabled, max_retries, outcomes) ==
    IF ~enabled THEN SendDisabled(SendStart)
    ELSE SendLoop(SendStart, outcomes, max_retries)

\* the sequences of max_retries gateway outcomes
RECURSIVE OutcomeSeqs(_)
OutcomeSeqs(k) ==
    IF k = 0 THEN {<<>>}
    ELSE {Append(q, o) : q \in OutcomeSeqs(k - 1), o \in GatewayOutcomes}

\* the values of WHATSAPP_MAX_RETRIES explored
RetryLimits == 0..MaxRetriesBound \cup {DEFAULT_MAX_RETRIES}

\* every result send_whatsapp_message can return, by configuration
SendResults ==
    [e \in BOOLEAN, m \in RetryLimits |->
        {send_whatsapp_message(e, m, q) : q \in OutcomeSeqs(m)}]

(***************************************************************************)
(* The tables (db.py).                                                     *)
(***************************************************************************)
\* create_recommendation: INSERT ... (farmer_id, doctor_id, is_claimed) VALUES (.., .., 0)
create_recommendation ==
    [is_claimed         |-> FALSE,
     claimed_by_shop_id |-> Null,
     claimed_at         |-> Null,
     claim_notes        |-> NullText]

\* a recommendation_items row as issued, without dates
create_recommendation_item(i) ==
    [recommendation_id |-> ISSUED_ITEMS[i].recommendation_id,
     treatment_days    |-> ISSUED_ITEMS[i].treatment_days,
     start_date        |-> Null,
     end_date          |-> Null]

\* get_recommendation_by_id(id) returns a row (not None)
get_recommendation_by_id(id) == id \in DOMAIN medicine_recommendations

\* the SELECT without its WHERE clause: the ids of all rows
get_recommendation_items_by_recommendation_id_AllRows(rid) == [i \in ItemIds |-> i]

\* get_recommendation_items_by_recommendation_id: the ids of the rows
\* WHERE recommendation_id = rid ORDER BY id
get_recommendation_items_by_recommendation_id(rid) ==
    SelectSeq([i \in ItemIds |-> i],
              LAMBDA i : recommendation_items[i].recommendation_id = rid)

\* the UPDATE without `AND is_claimed = 0`
AffectedRows_NoGuard(row) == 1

\* claim_recommendation's UPDATE: the rows matched by
\* WHERE id = %s AND is_claimed = 0
AffectedRows(row) == IF row.is_claimed = FALSE THEN 1 ELSE 0

\* the UPDATE reported as matching a row but not stored
ClaimedRow_Unchanged(row, shop_id, now, claim_notes) == row

\* the UPDATE that stores no claimed_by_shop_id
ClaimedRow_ShopNotStored(row, shop_id, now, claim_notes) ==
    [row EXCEPT !.is_claimed = TRUE,
                !.claimed_at = now,
                !.claim_notes = claim_notes]

\* the UPDATE without `is_claimed = 1` in its SET list
ClaimedRow_FlagNotSet(row, shop_id, now, claim_notes) ==
    [row EXCEPT !.claimed_by_shop_id = shop_id,
                !.claimed_at = now,
                !.claim_notes = claim_notes]

\* claim_recommendation's UPDATE: SET is_claimed = 1, claimed_by_shop_id,
\* claimed_at, claim_notes
ClaimedRow(row, shop_id, now, claim_notes) ==
    [row EXCEPT !.is_claimed = TRUE,
                !.claimed_by_shop_id = shop_id,
                !.claimed_at = now,
                !.claim_notes = claim_notes]

\* update_recommendation_item_dates's UPDATE: SET start_date, end_date
DatedItem(row, start_date, end_date) ==
    [row EXCEPT !.start_date = start_date, !.end_date = end_date]

(***************************************************************************)
(* claim_recommendation_route (app.py).                                    *)
(***************************************************************************)
\* `if item['treatment_days']`: neither None nor 0
Truthy(td) == td # Null /\ td # 0

\* the generator of max(...): the treatment_days that are truthy
UsableTreatmentDays(items) ==
    {recommendation_items[items[k]].treatment_days : k \in
        {j \in 1..Len(items) : Truthy(recommendation_items[items[j]].treatment_days)}}

SetMax(S) == CHOOSE x \in S : \A y \in S : y <= x

\* the first item's treatment_days instead of the maximum
MaxTreatmentDays_FirstItem(items) == recommendation_items[items[1]].treatment_days

\* max(item['treatment_days'] for item in recommendation_items if item['treatment_days'])
MaxTreatmentDays(items) == SetMax(UsableTreatmentDays(items))

\* end_date = start_date + timedelta(days=max_treatment_days - 1)
EndDate(start_date, max_treatment_days) == date_plus(start_date, max_treatment_days - 1)

\* the end date without the `- 1`: the start day not counted as day 1
ItemEndDate_Exclusive(start_date, treatment_days) == date_plus(start_date, treatment_days)

\* item_end_date = start_date + timedelta(days=item['treatment_days'] - 1)
ItemEndDate(start_date, treatment_days) == date_plus(start_date, treatment_days - 1)

NoResponse ==
    [status |-> 0, body |-> "", shop_id |-> Null, claimed_at |-> Null,
     start_date |-> NoDateStr, end_date |-> NoDateStr, max_treatment_days |-> Null,
     notes |-> "", whatsapp_sent |-> FALSE, whatsapp_message |-> NoMsg]

\* jsonify({'error': text}), status
ErrorResponse(status, text) == [NoResponse EXCEPT !.status = status, !.body = text]

NotLoggedIn == ErrorResponse(401, "Shop not logged in")
\* the missing recommendation reported as a bad request
NotFound_AsBadRequest == ErrorResponse(400, "Recommendation not found")
NotFound == ErrorResponse(404, "Recommendation not found")
AlreadyClaimed == ErrorResponse(400, "Recommendation already claimed")
StartDateRequired == ErrorResponse(400, "Start date is required")
InvalidDateFormat == ErrorResponse(400, "Invalid date format. Use YYYY-MM-DD")
NoItemsFound == ErrorResponse(404, "No recommendation items found")
ClaimNotSuccessful == ErrorResponse(500, "Failed to claim recommendation")
\* the route's `except Exception as e` handler
UnhandledException == ErrorResponse(500, "Failed to claim recommendation: <exception>")

\* the route without its early is_claimed check
IsClaimedCheck_Skipped(row) == FALSE

\* `if recommendation['is_claimed']`
IsClaimedCheck(row) == row.is_claimed

\* The checks of the route before it calls claim_recommendation, in the
\* order of the code: the response of the first check that fails, NoResponse
\* when all pass.
Rejection(rid, shop_id, start_date_str) ==
    IF shop_id = Null THEN NotLoggedIn
    ELSE IF ~get_recommendation_by_id(rid) THEN NotFound
    ELSE IF IsClaimedCheck(medicine_recommendations[rid]) THEN AlreadyClaimed
    ELSE IF start_date_str = NoDateStr THEN StartDateRequired
    ELSE IF ~strptime_ok(start_date_str) THEN InvalidDateFormat
    ELSE LET items == get_recommendation_items_by_recommendation_id(rid)
         IN  IF items = <<>> THEN NoItemsFound
             ELSE IF UsableTreatmentDays(items) = {} THEN UnhandledException
             ELSE NoResponse

\* what data.get('start_date') is: missing or empty, a string strptime
\* rejects, or a calendar date
DateInput(start_date_str) ==
    IF start_date_str = NoDateStr THEN "missing"
    ELSE IF ~strptime_ok(start_date_str) THEN "unparseable"
    ELSE "date"

IdleReq ==
    [recommendation_id |-> Null, shop_id |-> Null, date_input |-> "", notes |-> "",
     start_date |-> Null, end_date |-> Null, max_treatment_days |-> Null,
     now |-> Null, affected_rows |-> Null, claim_success |-> "not called",
     idx |-> 0, notification |-> "not reached", dispatched |-> FALSE,
     gateway_called |-> FALSE, fault |-> "none"]

\* What is kept of a request once it has returned: which recommendation
\* and session it was for, what start date it gave if it ended before
\* claim_recommendation, the parameters and the result of its call of
\* claim_recommendation, and how its notification went.
Returned(q) ==
    [IdleReq EXCEPT !.recommendation_id = q.recommendation_id,
                    !.shop_id = q.shop_id,
                    !.date_input = IF q.claim_success = "not called" THEN q.date_input ELSE "",
                    !.claim_success = q.claim_success,
                    !.notes = IF q.claim_success = "not called" THEN "" ELSE q.notes,
                    !.start_date = IF q.claim_success = "True" THEN q.start_date ELSE Null,
                    !.now = q.now,
                    !.notification = q.notification,
                    !.dispatched = q.dispatched,
                    !.gateway_called = q.gateway_called,
                    !.fault = q.fault]

Respond(r, q, resp) ==
    /\ pc' = [pc EXCEPT ![r] = "done"]
    /\ req' = [req EXCEPT ![r] = Returned(q)]
    /\ response' = [response EXCEPT ![r] = resp]

\* Lines 719-757: the session check, the load of the recommendation, the
\* validation of the body, the load of the items and the end date.
Begin(r) ==
    /\ pc[r] = "idle"
    /\ IF r = 1 THEN TRUE ELSE pc[r - 1] # "idle"
    /\ \E rid \in RequestRecIds, shop_id \in Shops \cup {Null}, data \in Bodies :
          LET start_date_str == data.start_date
              notes == data.notes
              rej == Rejection(rid, shop_id, start_date_str)
              q0  == [IdleReq EXCEPT !.recommendation_id = rid, !.shop_id = shop_id,
                                     !.date_input = DateInput(start_date_str)]
          IN  IF rej.status # 0
              THEN Respond(r, q0, rej)
              ELSE LET items == get_recommendation_items_by_recommendation_id(rid)
                       start == ymd2ord(start_date_str)
                       mtd   == MaxTreatmentDays(items)
                   IN  /\ pc' = [pc EXCEPT ![r] = "claim"]
                       /\ req' = [req EXCEPT ![r] =
                                    [q0 EXCEPT !.notes = notes,
                                               !.start_date = start,
                                               !.max_treatment_days = mtd,
                                               !.end_date = EndDate(start, mtd)]]
                       /\ UNCHANGED response
    /\ UNCHANGED <<send, gateway, WHATSAPP_ENABLED, WHATSAPP_MAX_RETRIES, medicine_recommendations,
                   recommendation_items, row_lock, clock>>

\* claim_recommendation, first half: execute_insert_update_delete opens a
\* connection and cursor.execute runs the UPDATE.  InnoDB locks the row until
\* the transaction ends; a second UPDATE of the row waits for the lock and
\* then evaluates its WHERE clause on the committed row.
ClaimExecute(r) ==
    /\ pc[r] = "claim"
    /\ row_lock[req[r].recommendation_id] = 0
    /\ row_lock' = [row_lock EXCEPT ![req[r].recommendation_id] = r]
    /\ req' = [req EXCEPT ![r].now = clock,
                          ![r].affected_rows =
                              AffectedRows(medicine_recommendations[req[r].recommendation_id])]
    /\ clock' = clock + 1
    /\ pc' = [pc EXCEPT ![r] = "commit"]
    /\ UNCHANGED <<send, gateway, WHATSAPP_ENABLED, WHATSAPP_MAX_RETRIES, medicine_recommendations,
                   recommendation_items, response>>

\* claim_recommendation returning True whatever the UPDATE matched
ClaimSuccess_Always(affected_rows) == TRUE

\* `return affected_rows > 0`
ClaimSuccess(affected_rows) == affected_rows > 0

\* the route going on whatever claim_recommendation returned
ClaimRejected_Never(claim_success) == FALSE

\* `if not claim_success:` of the route
ClaimRejected(claim_success) == ~claim_success

\* the connection left open after the commit
CloseConnection_Leaked(lock, rid) == lock

\* `finally: if connection: connection.close()` after connection.commit():
\* the transaction is over and its row lock released
CloseConnection(lock, rid) == [lock EXCEPT ![rid] = 0]

\* claim_recommendation, second half: connection.commit(), close, and
\* `return affected_rows > 0`; then lines 762-763 of the route.
ClaimCommit(r) ==
    LET q   == req[r]
        rid == q.recommendation_id
        ok  == ClaimSuccess(q.affected_rows)
    IN  /\ pc[r] = "commit"
        /\ medicine_recommendations' =
              IF q.affected_rows > 0
              THEN [medicine_recommendations EXCEPT
                      ![rid] = ClaimedRow(@, q.shop_id, q.now, q.notes)]
              ELSE medicine_recommendations
        /\ row_lock' = CloseConnection(row_lock, rid)
        /\ IF ~ClaimRejected(ok)
           THEN /\ pc' = [pc EXCEPT ![r] = "items"]
                /\ req' = [req EXCEPT ![r].claim_success = IF ok THEN "True" ELSE "False",
                                      ![r].idx = 1]
                /\ UNCHANGED response
           ELSE Respond(r, [q EXCEPT !.claim_success = "False"], ClaimNotSuccessful)
        /\ UNCHANGED <<send, gateway, WHATSAPP_ENABLED, WHATSAPP_MAX_RETRIES, recommendation_items, clock>>

\* a failed claim_recommendation whose UPDATE is stored all the same
ClaimFail_Commits(r) ==
    LET q   == req[r]
        rid == q.recommendation_id
    IN  /\ pc[r] \in {"claim", "commit"}
        /\ row_lock' = [row_lock EXCEPT ![rid] = IF @ = r THEN 0 ELSE @]
        /\ Respond(r, [q EXCEPT !.claim_success = "raised", !.fault = "claim"],
                   UnhandledException)
        /\ medicine_recommendations' =
              IF pc[r] = "commit" /\ q.affected_rows > 0
              THEN [medicine_recommendations EXCEPT
                      ![rid] = ClaimedRow(@, q.shop_id, q.now, q.notes)]
              ELSE medicine_recommendations
        /\ UNCHANGED <<send, gateway, WHATSAPP_ENABLED, WHATSAPP_MAX_RETRIES,
                       recommendation_items, clock>>

\* claim_recommendation raises: get_connection, cursor.execute or
\* connection.commit fails; execute_insert_update_delete rolls back, closes
\* and re-raises, and the route's handler answers 500.
ClaimFail(r) ==
    /\ pc[r] \in {"claim", "commit"}
    /\ row_lock' = [row_lock EXCEPT ![req[r].recommendation_id] =
                        IF @ = r THEN 0 ELSE @]
    /\ Respond(r, [req[r] EXCEPT !.claim_success = "raised", !.fault = "claim"],
               UnhandledException)
    /\ UNCHANGED <<send, gateway, WHATSAPP_ENABLED, WHATSAPP_MAX_RETRIES, medicine_recommendations,
                   recommendation_items, clock>>

\* where the route goes after the item at position idx of `items`
AfterItem(r, items) ==
    IF req[r].idx < Len(items)
    THEN /\ pc' = pc
         /\ req' = [req EXCEPT ![r].idx = @ + 1]
    ELSE /\ pc' = [pc EXCEPT ![r] = "notify"]
         /\ req' = [req EXCEPT ![r].idx = 0]

\* Lines 766-768: one iteration of the loop over the items.
UpdateItemDates(r) ==
    LET q     == req[r]
        items == get_recommendation_items_by_recommendation_id(q.recommendation_id)
        item  == items[q.idx]
        td    == recommendation_items[item].treatment_days
    IN  /\ pc[r] = "items"
        /\ IF td = Null
           THEN \* None - 1 raises TypeError
                /\ Respond(r, q, UnhandledException)
                /\ UNCHANGED recommendation_items
           ELSE /\ recommendation_items' =
                      [recommendation_items EXCEPT
                          ![item] = DatedItem(@, q.start_date, ItemEndDate(q.start_date, td))]
                /\ AfterItem(r, items)
                /\ UNCHANGED response
        /\ UNCHANGED <<send, gateway, WHATSAPP_ENABLED, WHATSAPP_MAX_RETRIES, medicine_recommendations,
                       row_lock, clock>>

\* a failed write of item dates that undoes the claim
UpdateItemDatesFail_RollsBackClaim(r) ==
    LET q     == req[r]
        items == get_recommendation_items_by_recommendation_id(q.recommendation_id)
    IN  /\ pc[r] = "items"
        /\ recommendation_items[items[q.idx]].treatment_days # Null
        /\ Respond(r, [q EXCEPT !.fault = "item dates"], UnhandledException)
        /\ medicine_recommendations' =
              [medicine_recommendations EXCEPT ![q.recommendation_id] = create_recommendation]
        /\ UNCHANGED <<send, gateway, WHATSAPP_ENABLED, WHATSAPP_MAX_RETRIES,
                       recommendation_items, row_lock, clock>>

\* update_recommendation_item_dates raises: the route does not catch it
\* around the loop, its handler answers 500.
UpdateItemDatesFail(r) ==
    LET q     == req[r]
        items == get_recommendation_items_by_recommendation_id(q.recommendation_id)
    IN  /\ pc[r] = "items"
        /\ recommendation_items[items[q.idx]].treatment_days # Null
        /\ Respond(r, [q EXCEPT !.fault = "item dates"], UnhandledException)
        /\ UNCHANGED <<send, gateway, WHATSAPP_ENABLED, WHATSAPP_MAX_RETRIES, medicine_recommendations,
                       recommendation_items, row_lock, clock>>

\* what get_farmer_by_id(recommendation['farmer_id']) can give: a row with a
\* mobile number, a row without one, no row, or an exception
FarmerLookups == {"found", "no mobile", "not found", "raises"}

\* what the route can observe of a call of send_whatsapp_message: what it
\* returned, and whether the gateway was called
Observed(res) ==
    [returned |-> res.returned, success |-> res.success, message |-> res.message,
     gateway_called |-> res.http_calls > 0]

ObservedResults ==
    [e \in BOOLEAN, m \in RetryLimits |->
        {Observed(res) : res \in SendResults[e, m]}]

\* the unpacking of None not caught around the call: the TypeError reaches
\* the route's handler
UnpackSendResult_Propagates(res) ==
    IF res.returned = "pair"
    THEN [raised |-> FALSE, sent |-> res.success, message |-> res.message]
    ELSE [raised |-> TRUE, sent |-> FALSE, message |-> NoMsg]

\* `success, message = send_whatsapp_message(...)` inside the inner try of
\* lines 784-800: unpacking None raises TypeError, which the inner handler
\* turns into a failed notification.
UnpackSendResult(res) ==
    IF res.returned = "pair"
    THEN [raised |-> FALSE, sent |-> res.success, message |-> res.message]
    ELSE [raised |-> FALSE, sent |-> FALSE,
          message |-> Msg("WhatsApp failed: cannot unpack non-iterable NoneType object", 0)]

\* a missing farmer or mobile number treated as an error of the request
Notification_FarmerRequired(farmer, res) ==
    IF farmer = "found"
    THEN UnpackSendResult(res)
    ELSE [raised |-> TRUE, sent |-> FALSE, message |-> NoMsg]

\* Lines 771-810: whatsapp_success and whatsapp_message after the
\* notification block, for a farmer lookup and a dispatcher result.
Notification(farmer, res) ==
    CASE farmer = "found" -> UnpackSendResult(res)
      [] farmer \in {"no mobile", "not found"} ->
            [raised |-> FALSE, sent |-> FALSE,
             message |-> Msg("Farmer mobile number not available", 0)]
      [] farmer = "raises" ->
            [raised |-> FALSE, sent |-> FALSE,
             message |-> Msg("WhatsApp preparation error: <exception>", 0)]

\* how the notification block went, for a farmer lookup and a dispatcher result
NotificationOutcome(farmer, res) ==
    CASE farmer = "raises" -> "farmer lookup raised"
      [] farmer \in {"no mobile", "not found"} -> "farmer not available"
      [] farmer = "found" /\ res.returned = "None" -> "send returned None"
      [] farmer = "found" /\ res.returned = "pair" /\ res.success -> "delivered"
      [] farmer = "found" /\ res.returned = "pair" /\ ~res.success -> "send failed"

\* Lines 812-826: the success response.
SuccessResponse(q, row, now, note) ==
    [status             |-> 200,
     body               |-> "Recommendation claimed successfully",
     shop_id            |-> q.shop_id,
     claimed_at         |-> IF row.claimed_at # Null THEN row.claimed_at ELSE now,
     start_date         |-> ord2ymd(q.start_date),
     end_date           |-> ord2ymd(q.end_date),
     max_treatment_days |-> q.max_treatment_days,
     notes              |-> q.notes,
     whatsapp_sent      |-> note.sent,
     whatsapp_message   |-> note.message]

\* the response after the notification block, lines 812-826, or the
\* handler's response when the block let an exception through
Answer(r, q, farmer, res) ==
    LET note == Notification(farmer, res)
        q1   == [q EXCEPT !.notification = NotificationOutcome(farmer, res),
                          !.dispatched = (farmer = "found"),
                          !.gateway_called = (farmer = "found" /\ res.gateway_called)]
    IN  IF note.raised
        THEN Respond(r, q1, UnhandledException)
        ELSE Respond(r, q1,
                     SuccessResponse(q, medicine_recommendations[q.recommendation_id],
                                     clock, note))

\* Lines 770-785 and 802-826: get_farmer_by_id, which has closed its
\* connection when it returns.  With a farmer and a mobile number the route
\* enters send_whatsapp_message; without, or when the lookup raises, it goes
\* on to the re-read of the recommendation and the response.
Notify(r) ==
    LET q == req[r]
    IN  /\ pc[r] = "notify"
        /\ \E farmer \in FarmerLookups :
              IF farmer = "found"
              THEN /\ pc' = [pc EXCEPT ![r] = "dispatch"]
                   /\ req' = [req EXCEPT ![r].dispatched = TRUE]
                   /\ UNCHANGED response
              ELSE Answer(r, q, farmer, Observed(SendStart))
        /\ UNCHANGED <<send, gateway, WHATSAPP_ENABLED, WHATSAPP_MAX_RETRIES, medicine_recommendations,
                       recommendation_items, row_lock, clock>>

\* Lines 785-826: the call of send_whatsapp_message, the gateway answering
\* as it will, the unpacking of its result, the re-read of the
\* recommendation and the response.  The route holds no connection during
\* the call: every db.py call before it has closed its own.
Dispatch(r) ==
    /\ pc[r] = "dispatch"
    /\ \E res \in ObservedResults[WHATSAPP_ENABLED, WHATSAPP_MAX_RETRIES] :
          Answer(r, req[r], "found", res)
    /\ UNCHANGED <<send, gateway, WHATSAPP_ENABLED, WHATSAPP_MAX_RETRIES, medicine_recommendations,
                   recommendation_items, row_lock, clock>>

\* The worker is abandoned between two steps (the client is gone, the
\* worker is killed): it returns nothing; an open connection is closed by
\* the server, which rolls its transaction back.
Abandon(r) ==
    /\ pc[r] \in {"claim", "commit", "items", "notify", "dispatch"}
    /\ pc' = [pc EXCEPT ![r] = "abandoned"]
    /\ req' = [req EXCEPT ![r] = Returned(req[r])]
    /\ row_lock' = [row_lock EXCEPT ![req[r].recommendation_id] =
                        IF @ = r THEN 0 ELSE @]
    /\ UNCHANGED <<send, gateway, WHATSAPP_ENABLED, WHATSAPP_MAX_RETRIES, medicine_recommendations,
                   recommendation_items, clock, response>>

(***************************************************************************)
(* The service: the configuration read at start-up, the issued data, and   *)
(* NumReqs requests.                                                       *)
(***************************************************************************)
Init ==
    /\ WHATSAPP_ENABLED \in BOOLEAN
    /\ WHATSAPP_MAX_RETRIES = DEFAULT_MAX_RETRIES
    /\ medicine_recommendations = [id \in RecIds |-> create_recommendation]
    /\ recommendation_items = [i \in ItemIds |-> create_recommendation_item(i)]
    /\ row_lock = [id \in RecIds |-> 0]
    /\ clock = 1
    /\ pc = [r \in Reqs |-> "idle"]
    /\ req = [r \in Reqs |-> IdleReq]
    /\ response = [r \in Reqs |-> NoResponse]
    /\ send = NotCalled
    /\ gateway = <<>>

Next ==
    \E r \in Reqs :
        \/ Begin(r)
        \/ ClaimExecute(r)
        \/ ClaimCommit(r)
        \/ ClaimFail(r)
        \/ UpdateItemDates(r)
        \/ UpdateItemDatesFail(r)
        \/ Notify(r)
        \/ Dispatch(r)
        \/ Abandon(r)

Spec == Init /\ [][Next]_vars

(***************************************************************************)
(* The dispatcher on its own: one call of send_whatsapp_message followed   *)
(* one requests.post at a time, for each configuration and each sequence   *)
(* of gateway outcomes.  Lines 52-120 build the payload from the rows the  *)
(* route passes (a non-empty mobile number, the item rows, two dates) and  *)
(* change nothing the loop reads.                                          *)
(***************************************************************************)
\* what a requests.post call can end in: GatewayOutcomes and further statuses
DispatcherOutcomes == GatewayOutcomes \cup {Status(202), Status(204), Status(400)}

SendInit ==
    /\ WHATSAPP_ENABLED \in BOOLEAN
    /\ WHATSAPP_MAX_RETRIES \in 0..MaxRetriesBound
    /\ medicine_recommendations = [id \in RecIds |-> create_recommendation]
    /\ recommendation_items = [i \in ItemIds |-> create_recommendation_item(i)]
    /\ row_lock = [id \in RecIds |-> 0]
    /\ clock = 1
    /\ pc = [r \in Reqs |-> "idle"]
    /\ req = [r \in Reqs |-> IdleReq]
    /\ response = [r \in Reqs |-> NoResponse]
    /\ send = NotCalled
    /\ gateway = <<>>

\* Lines 126-133: the call reaches the enabled check; disabled it returns,
\* enabled it sets max_retries and retry_delay and enters the loop.
SendCall ==
    /\ send = NotCalled
    /\ send' = IF ~WHATSAPP_ENABLED THEN SendDisabled(SendStart) ELSE SendStart
    /\ UNCHANGED <<gateway, WHATSAPP_ENABLED, WHATSAPP_MAX_RETRIES, route_vars>>

\* Lines 135-179: one iteration of the loop, requests.post ending in o.
SendAttempt ==
    /\ send.returned = "running"
    /\ send.attempt < WHATSAPP_MAX_RETRIES
    /\ \E o \in DispatcherOutcomes :
          /\ send' = SendStep(send, o, WHATSAPP_MAX_RETRIES)
          /\ gateway' = Append(gateway, o)
    /\ UNCHANGED <<WHATSAPP_ENABLED, WHATSAPP_MAX_RETRIES, route_vars>>

\* range(max_retries) is used up and no iteration returned.
SendExhausted ==
    /\ send.returned = "running"
    /\ ~(send.attempt < WHATSAPP_MAX_RETRIES)
    /\ send' = SendFallOff(send)
    /\ UNCHANGED <<gateway, WHATSAPP_ENABLED, WHATSAPP_MAX_RETRIES, route_vars>>

SendNext == SendCall \/ SendAttempt \/ SendExhausted

SendSpec == SendInit /\ [][SendNext]_vars

\* The dispatcher call always goes on: requests.post is given
\* timeout=WHATSAPP_TIMEOUT, so every attempt ends, and every time.sleep is
\* finite.
SendLiveSpec == SendInit /\ [][SendNext]_vars /\ WF_vars(SendNext)

(***************************************************************************)
(* Properties.                                                             *)
(***************************************************************************)
ItemsOf(rid) == {i \in ItemIds : recommendation_items[i].recommendation_id = rid}

\* every item of the recommendation has treatment_days >= 1
ValidPlan(rid) ==
    /\ ItemsOf(rid) # {}
    /\ \A i \in ItemsOf(rid) : recommendation_items[i].treatment_days >= 1

\* the requests that called claim_recommendation for rid and got an answer from it
ClaimCallers(rid) ==
    {r \in Reqs : req[r].recommendation_id = rid
                  /\ req[r].claim_success \in {"True", "False"}}

Finished == \A r \in Reqs : pc[r] = "done"

\* C1: when N >= 2 distinct shops race for an unclaimed recommendation (with
\* a valid plan and valid start dates, no storage fault), exactly one request
\* ends in success and each other one in the AlreadyClaimed rejection, HTTP
\* 400, also when it lost only at claim_recommendation.
C1_OneSuccessOthersAlreadyClaimed ==
    \A rid \in RecIds :
        LET racers == ClaimCallers(rid)
        IN  ( /\ Finished
              /\ ValidPlan(rid)
              /\ Cardinality(racers) >= 2
              /\ \A a, b \in racers : a # b => req[a].shop_id # req[b].shop_id
              /\ \A a \in racers : req[a].fault = "none" )
            => /\ Cardinality({a \in racers : response[a].status = 200}) = 1
               /\ \A a \in racers :
                     response[a].status # 200
                        => /\ response[a].status = 400
                           /\ response[a].body = "Recommendation already claimed"

\* C2: over any interleaving of claim_recommendation calls on one
\* recommendation at most one returns true; a call returns true iff it is
\* the one that changed the row, and the persisted claimed_by_shop_id,
\* claimed_at and claim_notes are those of that call.
C2_AtomicConditionalClaim ==
    \A rid \in RecIds :
        LET row     == medicine_recommendations[rid]
            winners == {r \in ClaimCallers(rid) : req[r].claim_success = "True"}
        IN  /\ Cardinality(winners) <= 1
            /\ row.is_claimed => winners # {}
            /\ \A r \in ClaimCallers(rid) :
                  (req[r].claim_success = "True")
                     <=> (row.is_claimed /\ row.claimed_at = req[r].now)
            /\ \A r \in winners :
                  /\ row.claimed_by_shop_id = req[r].shop_id
                  /\ row.claim_notes = req[r].notes

\* a recommendation two calls of claim_recommendation answered, one with
\* true and one with false
C2_Witness ==
    \E rid \in RecIds : \E a, b \in ClaimCallers(rid) :
        /\ req[a].claim_success = "True"
        /\ req[b].claim_success = "False"
        /\ req[a].shop_id # req[b].shop_id
        /\ medicine_recommendations[rid].claimed_by_shop_id = req[a].shop_id

\* C3: a request that reached the notification step (claim_recommendation
\* returned true, the item dates are written) is answered with the success
\* response whatever the notification's outcome; unless the message was
\* delivered, whatsapp_sent is false and whatsapp_message says why; the claim
\* and the item dates are persisted.
C3_NotificationNeverFailsClaim ==
    \A r \in Reqs :
        (pc[r] = "done" /\ req[r].notification # "not reached")
        => LET rid == req[r].recommendation_id
               row == medicine_recommendations[rid]
           IN  /\ response[r].status = 200
               /\ response[r].whatsapp_sent = (req[r].notification = "delivered")
               /\ req[r].notification # "delivered" => response[r].whatsapp_message.text # ""
               /\ row.is_claimed
               /\ row.claimed_by_shop_id = req[r].shop_id
               /\ \A i \in ItemsOf(rid) :
                     /\ recommendation_items[i].start_date = ymd2ord(response[r].start_date)
                     /\ recommendation_items[i].end_date # Null

\* a request whose send_whatsapp_message ran out of attempts on a 429 and
\* returned None, answered
C3_Witness ==
    \E r \in Reqs :
        /\ pc[r] = "done"
        /\ req[r].notification = "send returned None"
        /\ response[r].status = 200
        /\ ~response[r].whatsapp_sent

\* C4: a recommendation is unclaimed iff claimed_by_shop_id and claimed_at
\* are both null.
C4_ClaimFieldsAgree ==
    \A rid \in RecIds :
        LET row == medicine_recommendations[rid]
        IN  (row.is_claimed = FALSE)
               <=> (row.claimed_by_shop_id = Null /\ row.claimed_at = Null)

\* a claimed recommendation beside an unclaimed one
C4_Witness ==
    \E a, b \in RecIds :
        /\ medicine_recommendations[a].is_claimed
        /\ medicine_recommendations[a].claimed_by_shop_id \in Shops
        /\ medicine_recommendations[a].claimed_at # Null
        /\ ~medicine_recommendations[b].is_claimed

\* C5: once a recommendation is claimed, no step changes its row.
C5_ClaimIsMonotonic ==
    [][\A rid \in RecIds :
          medicine_recommendations[rid].is_claimed
             => medicine_recommendations'[rid] = medicine_recommendations[rid]]_vars

\* a claimed recommendation after a later claim attempt that lost, a failed
\* write of item dates, or an abandoned request
C5_Witness ==
    \E rid \in RecIds : \E a, b \in Reqs :
        /\ medicine_recommendations[rid].is_claimed
        /\ req[a].recommendation_id = rid
        /\ req[a].claim_success = "True"
        /\ req[a].fault = "item dates" \/ pc[a] = "abandoned"
        /\ req[b].recommendation_id = rid
        /\ req[b].claim_success = "False"
        /\ medicine_recommendations[rid].claimed_by_shop_id = req[a].shop_id

\* C6: every item has start_date and end_date both null or both set, and
\* when set end_date = start_date + (treatment_days - 1) days; 7 days from
\* 2024-03-10 end on 2024-03-16, 1 day ends on the start date.
C6_ItemDates ==
    \A i \in ItemIds :
        LET item == recommendation_items[i]
        IN  /\ (item.start_date = Null) <=> (item.end_date = Null)
            /\ item.start_date # Null =>
                  /\ item.treatment_days # Null
                  /\ item.end_date - item.start_date = item.treatment_days - 1
                  /\ item.treatment_days = 1 => item.end_date = item.start_date
                  /\ (item.treatment_days = 7 /\ ord2ymd(item.start_date) = <<2024, 3, 10>>)
                        => ord2ymd(item.end_date) = <<2024, 3, 16>>

\* the 7-day item dated from 2024-03-10 beside the 1-day item
C6_Witness ==
    \E i, j \in ItemIds :
        /\ recommendation_items[i].treatment_days = 7
        /\ ord2ymd(recommendation_items[i].start_date) = <<2024, 3, 10>>
        /\ ord2ymd(recommendation_items[i].end_date) = <<2024, 3, 16>>
        /\ recommendation_items[j].treatment_days = 1
        /\ ord2ymd(recommendation_items[j].end_date) = <<2024, 3, 10>>

\* the largest treatment_days over all items of a recommendation
LargestTreatmentDays(rid) ==
    CHOOSE d \in {recommendation_items[i].treatment_days : i \in ItemsOf(rid)} :
        \A i \in ItemsOf(rid) : recommendation_items[i].treatment_days <= d

\* C7: a success response carries max_treatment_days = the maximum
\* treatment_days over all items and end_date = start_date +
\* (max_treatment_days - 1) days; [5, 10, 3] from 2024-01-01 end 2024-01-10.
C7_ResponseEndDate ==
    \A r \in Reqs :
        response[r].status = 200
        => LET rid == req[r].recommendation_id
               mtd == response[r].max_treatment_days
           IN  /\ mtd = LargestTreatmentDays(rid)
               /\ strptime_ok(response[r].end_date)
               /\ ymd2ord(response[r].end_date) = ymd2ord(response[r].start_date) + (mtd - 1)
               /\ (mtd = 10 /\ response[r].start_date = <<2024, 1, 1>>)
                     => response[r].end_date = <<2024, 1, 10>>

\* the recommendation with items of 5, 10 and 3 days claimed from 2024-01-01
C7_Witness ==
    \E r \in Reqs :
        /\ response[r].status = 200
        /\ req[r].recommendation_id = 1
        /\ response[r].max_treatment_days = 10
        /\ response[r].start_date = <<2024, 1, 1>>
        /\ response[r].end_date = <<2024, 1, 10>>

\* an item whose treatment_days is absent or zero
UnusableItem(i) == recommendation_items[i].treatment_days \in {Null, 0}

\* C8: a recommendation with an item whose treatment_days is null or zero is
\* never claimed: the request fails before claim_recommendation, no item of
\* it gets dates, no notification is sent for it, no request for it succeeds.
C8_InvalidPlanRejected ==
    \A rid \in RecIds :
        (\E i \in ItemsOf(rid) : UnusableItem(i))
        => /\ ~medicine_recommendations[rid].is_claimed
           /\ \A i \in ItemsOf(rid) :
                 /\ recommendation_items[i].start_date = Null
                 /\ recommendation_items[i].end_date = Null
           /\ \A r \in Reqs :
                 req[r].recommendation_id = rid
                 => /\ req[r].claim_success # "True"
                    /\ ~req[r].dispatched
                    /\ response[r].status # 200

\* the tables and the notifications a step leaves alone
NothingChanged(r) ==
    /\ medicine_recommendations' = medicine_recommendations
    /\ recommendation_items' = recommendation_items
    /\ ~req'[r].dispatched
    /\ ~req'[r].gateway_called

\* C9: a claim request of a logged-in shop for a recommendation that is
\* already claimed is answered 400 "already claimed" at once; no row of
\* either table changes and nothing is dispatched.
C9_AlreadyClaimedChangesNothing ==
    [][\A r \in Reqs :
          ( /\ pc[r] = "idle"
            /\ pc'[r] # "idle"
            /\ req'[r].shop_id # Null
            /\ req'[r].recommendation_id \in RecIds
            /\ medicine_recommendations[req'[r].recommendation_id].is_claimed )
          => /\ pc'[r] = "done"
             /\ response'[r].status = 400
             /\ response'[r].body = "Recommendation already claimed"
             /\ NothingChanged(r)]_vars

\* a request answered "already claimed" for a recommendation claimed and
\* dated by another request
C9_Witness ==
    \E a, b \in Reqs :
        /\ pc[b] = "done"
        /\ response[b].status = 400
        /\ response[b].body = "Recommendation already claimed"
        /\ req[b].claim_success = "not called"
        /\ response[a].status = 200
        /\ req[a].recommendation_id = req[b].recommendation_id

\* C10: a claim request of a logged-in shop for an id that has no row is
\* answered 404 "not found" and changes no recommendation and no item.
C10_MissingIdNotFound ==
    [][\A r \in Reqs :
          ( /\ pc[r] = "idle"
            /\ pc'[r] # "idle"
            /\ req'[r].shop_id # Null
            /\ req'[r].recommendation_id \notin RecIds )
          => /\ pc'[r] = "done"
             /\ response'[r].status = 404
             /\ response'[r].body = "Recommendation not found"
             /\ NothingChanged(r)]_vars

\* a request for the missing id answered 404 while another recommendation
\* is claimed
C10_Witness ==
    \E a, b \in Reqs :
        /\ pc[a] = "done"
        /\ req[a].recommendation_id = MissingRecId
        /\ response[a].status = 404
        /\ req[b].claim_success = "True"

(***************************************************************************)
(* Properties of the dispatcher, checked under SendSpec.                   *)
(***************************************************************************)
\* the call has returned
SendEnded == send.returned \in {"pair", "None"}

\* a timeout, a connection failure or a 429
Retryable(o) == o \in {Timeout, ConnectionError, Status(429)}

\* an HTTP status of the 2xx class
Is2xx(o) == o.kind = "status" /\ o.code \in 200..299

\* an HTTP status that is neither 2xx nor 429
OtherStatus(o) == o.kind = "status" /\ ~Is2xx(o) /\ o.code # 429

\* the step is a requests.post that ended in o with attempts remaining
AttemptWithMoreLeft(o) ==
    /\ gateway' = Append(gateway, o)
    /\ send.attempt < WHATSAPP_MAX_RETRIES - 1

\* the fraction b is num/den times the fraction a
IsTimes(b, a, num, den) == b[1] * a[2] * den = num * a[1] * b[2]

\* C13: send_whatsapp_message never raises and always returns a pair
\* (delivered, detail), for every sequence of gateway outcomes and every
\* configuration (enabled or not, max_retries >= 0); a failed delivery is
\* returned as (false, reason).
C13_SendAlwaysReturnsPair ==
    SendEnded =>
        /\ send.returned = "pair"
        /\ ~send.success => send.message.text # ""

\* C14: when all max_retries attempts are used and each ended in a timeout,
\* a connection failure or a 429, in any mix, the call returns delivered =
\* false with the attempt count max_retries in the detail.
C14_ExhaustedReportsAttemptCount ==
    ( /\ SendEnded
      /\ WHATSAPP_MAX_RETRIES >= 1
      /\ Len(gateway) = WHATSAPP_MAX_RETRIES
      /\ \A k \in 1..Len(gateway) : Retryable(gateway[k]) )
    => /\ send.returned = "pair"
       /\ ~send.success
       /\ send.message.n = WHATSAPP_MAX_RETRIES

\* C15: an attempt that receives a status that is neither 2xx nor 429 is the
\* last one: the call returns delivered = false at once, without a wait; on
\* the first attempt exactly one HTTP call is made.
C15_OtherStatusFailsAtOnce ==
    \A k \in 1..Len(gateway) :
        OtherStatus(gateway[k])
        => /\ k = Len(gateway)
           /\ send.returned = "pair"
           /\ ~send.success
           /\ send.http_calls = k
           /\ Len(send.waits) = k - 1
           /\ send.message = Msg("Failed to send WhatsApp message: HTTP", gateway[k].code)

\* a 400 on the first of several attempts: one HTTP call, delivered = false
C15_Witness ==
    /\ WHATSAPP_MAX_RETRIES >= 2
    /\ gateway = <<Status(400)>>
    /\ send.returned = "pair"
    /\ ~send.success
    /\ send.http_calls = 1

\* C16: a 429 with attempts remaining is followed by a wait of twice
\* retry_delay, retry_delay unchanged, and another attempt; one 429 and then
\* a 200 are two HTTP calls and one wait of twice the base delay, delivered.
C16_RateLimitRetry ==
    [][ /\ AttemptWithMoreLeft(Status(429))
           => /\ Len(send'.waits) = Len(send.waits) + 1
              /\ IsTimes(send'.waits[Len(send'.waits)], send.retry_delay, 2, 1)
              /\ send'.retry_delay = send.retry_delay
              /\ send'.returned = "running"
              /\ send'.attempt = send.attempt + 1
        /\ gateway' = <<Status(429), Status(200)>>
           => /\ send'.returned = "pair"
              /\ send'.success
              /\ send'.http_calls = 2
              /\ send'.waits = << <<2 * BASE_RETRY_DELAY, 1>> >> ]_vars

\* one 429 and then a 200
C16_Witness ==
    /\ gateway = <<Status(429), Status(200)>>
    /\ send.success
    /\ send.http_calls = 2
    /\ Len(send.waits) = 1

\* C17: retry_delay starts at the base value and changes only on a timeout
\* with attempts remaining: the call waits retry_delay and multiplies it by
\* 1.5 (waits 2, 3, 4.5 for consecutive timeouts); after a connection
\* failure it waits retry_delay and leaves it unchanged.
C17_BackoffOnlyOnTimeout ==
    [][ /\ (send = NotCalled /\ send'.returned = "running")
           => send'.retry_delay = <<BASE_RETRY_DELAY, 1>>
        /\ AttemptWithMoreLeft(Timeout)
           => /\ send'.waits = Append(send.waits, send.retry_delay)
              /\ IsTimes(send'.retry_delay, send.retry_delay, 3, 2)
        /\ AttemptWithMoreLeft(ConnectionError)
           => /\ send'.waits = Append(send.waits, send.retry_delay)
              /\ send'.retry_delay = send.retry_delay
        /\ (send.returned = "running" /\ ~AttemptWithMoreLeft(Timeout))
           => send'.retry_delay = send.retry_delay
        /\ gateway' = <<Timeout, Timeout, Timeout>> /\ WHATSAPP_MAX_RETRIES > 3
           => send'.waits = << <<2, 1>>, <<3, 1>>, <<9, 2>> >> ]_vars

\* three timeouts in a row with a fourth attempt to come
C17_Witness ==
    /\ gateway = <<Timeout, Timeout, Timeout>>
    /\ send.returned = "running"
    /\ send.waits = << <<2, 1>>, <<3, 1>>, <<9, 2>> >>
    /\ send.retry_delay = <<27, 4>>

\* C18: an attempt that receives any 2xx status (200, 201, 202, 204) makes
\* the call return delivered = true at once, with no further attempt or wait.
C18_Any2xxDelivers ==
    \A k \in 1..Len(gateway) :
        Is2xx(gateway[k])
        => /\ k = Len(gateway)
           /\ send.returned = "pair"
           /\ send.success

\* C19: with the dispatcher disabled the call makes no HTTP call and returns
\* delivered = false with the "disabled" detail, whatever max_retries is.
C19_DisabledShortCircuits ==
    ~WHATSAPP_ENABLED
    => /\ gateway = <<>>
       /\ send.http_calls = 0
       /\ send # NotCalled
          => /\ send.returned = "pair"
             /\ ~send.success
             /\ send.message.text = "WhatsApp messaging is disabled in configuration"

\* the disabled dispatcher called with attempts configured
C19_Witness ==
    /\ ~WHATSAPP_ENABLED
    /\ WHATSAPP_MAX_RETRIES >= 1
    /\ send.returned = "pair"
    /\ send.http_calls = 0

(***************************************************************************)
(* Properties of the route's rejections, checked under Spec.               *)
(***************************************************************************)
\* C11: the rejections are checked in the order start date, existence,
\* already claimed, items: a request of a logged-in shop whose start date is
\* missing or does not parse is rejected as invalid input, whether or not
\* the recommendation exists or is claimed.
C11_StartDateCheckedFirst ==
    \A r \in Reqs :
        ( /\ pc[r] = "done"
          /\ req[r].shop_id # Null
          /\ req[r].date_input \in {"missing", "unparseable"} )
        => response[r] \in {StartDateRequired, InvalidDateFormat}

\* C12: a claim request of a logged-in shop for a recommendation that has
\* no items is answered 400 and leaves the recommendation unclaimed.
C12_NoItemsIsBadRequest ==
    \A r \in Reqs :
        ( /\ pc[r] = "done"
          /\ req[r].shop_id # Null
          /\ req[r].recommendation_id \in RecIds
          /\ ItemsOf(req[r].recommendation_id) = {} )
        => /\ response[r].status = 400
           /\ ~medicine_recommendations[req[r].recommendation_id].is_claimed

(***************************************************************************)
(* Properties of the order of commit and dispatch, checked under Spec.     *)
(***************************************************************************)
\* the request has an open transaction: it holds a row lock
InTransaction(r) == \E id \in RecIds : row_lock[id] = r

\* the request has entered send_whatsapp_message
EnteredDispatch(r) == pc[r] = "dispatch" \/ req[r].dispatched \/ req[r].gateway_called

\* C20: a request makes its first gateway call only after its
\* claim_recommendation has committed and released its connection; it has no
\* transaction open while send_whatsapp_message runs; a request whose
\* claim_recommendation did not return true makes no gateway call.
C20_DispatchAfterCommit ==
    \A r \in Reqs :
        /\ EnteredDispatch(r)
           => /\ req[r].claim_success = "True"
              /\ ~InTransaction(r)
              /\ LET row == medicine_recommendations[req[r].recommendation_id]
                 IN  /\ row.is_claimed
                     /\ row.claimed_by_shop_id = req[r].shop_id
                     /\ row.claimed_at = req[r].now
        /\ req[r].claim_success # "True"
           => /\ ~req[r].dispatched
              /\ ~req[r].gateway_called

\* one request inside send_whatsapp_message while another, whose dispatcher
\* called the gateway, has been answered
C20_Witness ==
    \E a, b \in Reqs :
        /\ pc[a] = "dispatch"
        /\ req[a].claim_success = "True"
        /\ pc[b] = "done"
        /\ req[b].gateway_called
        /\ response[b].status = 200

(***************************************************************************)
(* Properties of the course of a request, checked under Spec.              *)
(***************************************************************************)
\* C21: a request whose claim_recommendation returned true goes on through
\* the item dates and the notification and is answered with the success
\* response; the rejections are taken only before claim_recommendation.
\* Stated for requests that met no storage fault.
C21_ClaimedEndsCompleted ==
    \A r \in Reqs :
        /\ (pc[r] = "done" /\ req[r].claim_success = "True" /\ req[r].fault = "none")
           => /\ response[r].status = 200
              /\ req[r].notification # "not reached"
              /\ \A i \in ItemsOf(req[r].recommendation_id) :
                    recommendation_items[i].start_date # Null
        /\ (pc[r] = "done" /\ response[r] \in {NotFound, AlreadyClaimed, StartDateRequired,
                                                InvalidDateFormat, NoItemsFound})
           => req[r].claim_success = "not called"

\* C22: when claim_recommendation raises (the UPDATE or its commit fails),
\* nothing is committed: the recommendation stays unclaimed, no table
\* changes, nothing is dispatched, and the request is answered HTTP 500.
C22_ClaimWriteFailureAborts ==
    [][\A r \in Reqs :
          (pc[r] \in {"claim", "commit"} /\ pc'[r] = "done" /\ req'[r].fault = "claim")
          => LET rid == req[r].recommendation_id
             IN  /\ response'[r].status = 500
                 /\ medicine_recommendations' = medicine_recommendations
                 /\ recommendation_items' = recommendation_items
                 /\ req[r].affected_rows = 1 => ~medicine_recommendations'[rid].is_claimed
                 /\ row_lock'[rid] # r
                 /\ ~req'[r].dispatched
                 /\ ~req'[r].gateway_called]_vars

\* a request whose commit failed, answered 500, its recommendation unclaimed
\* and without dates
C22_Witness ==
    \E r \in Reqs :
        /\ pc[r] = "done"
        /\ req[r].fault = "claim"
        /\ req[r].now # Null
        /\ response[r].status = 500
        /\ ~medicine_recommendations[req[r].recommendation_id].is_claimed
        /\ \A i \in ItemsOf(req[r].recommendation_id) :
              recommendation_items[i].start_date = Null

\* C23: item dates are set only after a claim: an item with a start_date or
\* an end_date belongs to a recommendation whose is_claimed is true.
C23_DatesOnlyAfterClaim ==
    \A i \in ItemIds :
        LET item == recommendation_items[i]
        IN  (item.start_date # Null \/ item.end_date # Null)
            => medicine_recommendations[item.recommendation_id].is_claimed

\* a claimed recommendation with one item dated and another not yet
C23_Witness ==
    \E i, j \in ItemIds :
        /\ recommendation_items[i].recommendation_id = recommendation_items[j].recommendation_id
        /\ recommendation_items[i].start_date # Null
        /\ recommendation_items[j].start_date = Null
        /\ medicine_recommendations[recommendation_items[i].recommendation_id].is_claimed

(***************************************************************************)
(* Independence of the recommendations, checked under Spec.                *)
(***************************************************************************)
\* the request that takes the step
Stepping(r) == pc'[r] # pc[r] \/ req'[r] # req[r]

\* no other request is for the recommendation of request r
AloneOnRecommendation(r) ==
    \A o \in Reqs \ {r} : req[o].recommendation_id # req[r].recommendation_id

\* the answer of the route's checks for a recommendation as it was issued
IssuedRejection(rid, shop_id, date_input) ==
    IF shop_id = Null THEN NotLoggedIn
    ELSE IF rid \notin RecIds THEN NotFound
    ELSE IF date_input = "missing" THEN StartDateRequired
    ELSE IF date_input = "unparseable" THEN InvalidDateFormat
    ELSE IF \A i \in ItemIds : ISSUED_ITEMS[i].recommendation_id # rid THEN NoItemsFound
    ELSE UnhandledException

\* what a request sees of the other recommendations' requests: nothing
Unaffected(r) ==
    AloneOnRecommendation(r)
    => /\ pc[r] = "claim" => row_lock[req[r].recommendation_id] = 0
       /\ req[r].claim_success # "False"
       /\ pc[r] = "done"
          => /\ response[r] \notin {AlreadyClaimed, ClaimNotSuccessful}
             /\ req[r].claim_success = "not called"
                => response[r] = IssuedRejection(req[r].recommendation_id,
                                                 req[r].shop_id, req[r].date_input)

\* C24: claims on different recommendations are independent.  A step that
\* changes a recommendation's row or the dates of its items is a step of a
\* request for that recommendation; a row lock is held only by a request for
\* that row; a request that is alone on its recommendation never waits, is
\* never told "already claimed", never loses its claim, and its rejections
\* are those of the recommendation as issued.
C24_RecommendationsIndependent ==
    [][ /\ \A rid \in RecIds :
              ( \/ medicine_recommendations'[rid] # medicine_recommendations[rid]
                \/ \E i \in ItemIds :
                      /\ recommendation_items[i].recommendation_id = rid
                      /\ recommendation_items'[i] # recommendation_items[i] )
              => \A r \in Reqs : Stepping(r) => req[r].recommendation_id = rid
        /\ \A rid \in RecIds :
              row_lock'[rid] # 0 => req'[row_lock'[rid]].recommendation_id = rid
        /\ \A r \in Reqs : Unaffected(r)' ]_vars

\* two requests for different recommendations, interleaved, both answered
\* with success
C24_Witness ==
    \E a, b \in Reqs :
        /\ req[a].recommendation_id # req[b].recommendation_id
        /\ response[a].status = 200
        /\ response[b].status = 200
        /\ medicine_recommendations[req[a].recommendation_id].claimed_at
              > medicine_recommendations[req[b].recommendation_id].claimed_at
        /\ a < b

(***************************************************************************)
(* Properties of races on one recommendation, checked under Spec.          *)
(***************************************************************************)
\* C25: the dates of the items of a recommendation are those of the request
\* that claimed it: every dated item carries the start date submitted by
\* the shop recorded in claimed_by_shop_id and the end date computed from
\* it; a request that lost the race writes no date; after a success
\* response all items carry the response's start date.
C25_ItemsCarryWinnersStartDate ==
    \A rid \in RecIds :
        LET row == medicine_recommendations[rid]
        IN  /\ \A i \in ItemsOf(rid) :
                  recommendation_items[i].start_date # Null
                  => \E w \in Reqs :
                        /\ req[w].recommendation_id = rid
                        /\ req[w].claim_success = "True"
                        /\ req[w].now = row.claimed_at
                        /\ req[w].shop_id = row.claimed_by_shop_id
                        /\ recommendation_items[i].start_date = req[w].start_date
                        /\ recommendation_items[i].end_date =
                              req[w].start_date + recommendation_items[i].treatment_days - 1
            /\ \A r \in Reqs :
                  (req[r].recommendation_id = rid /\ response[r].status = 200)
                  => /\ row.claimed_by_shop_id = response[r].shop_id
                     /\ \A i \in ItemsOf(rid) :
                           recommendation_items[i].start_date = ymd2ord(response[r].start_date)

\* two shops racing with different start dates: one has claimed and dated an
\* item, the other's UPDATE has matched no row
C25_Witness ==
    \E a, b \in Reqs :
        /\ req[a].recommendation_id = req[b].recommendation_id
        /\ req[a].shop_id # req[b].shop_id
        /\ req[a].claim_success = "True"
        /\ pc[b] = "commit"
        /\ req[b].affected_rows = 0
        /\ req[b].start_date # req[a].start_date
        /\ \E i \in ItemsOf(req[a].recommendation_id) :
              recommendation_items[i].start_date = req[a].start_date

\* C27: for one recommendation send_whatsapp_message is entered by at most
\* one request, the one whose claim_recommendation returned true, so at most
\* one notification for it is delivered.
C27_OneDispatchPerRecommendation ==
    \A rid \in RecIds :
        LET on == {r \in Reqs : req[r].recommendation_id = rid}
        IN  /\ Cardinality({r \in on : EnteredDispatch(r)}) <= 1
            /\ \A r \in on : EnteredDispatch(r) => req[r].claim_success = "True"
            /\ Cardinality({r \in on : response[r].whatsapp_sent}) <= 1

\* a delivered notification for a recommendation another shop's request
\* lost at claim_recommendation
C27_Witness ==
    \E a, b \in Reqs :
        /\ req[a].recommendation_id = req[b].recommendation_id
        /\ response[a].whatsapp_sent
        /\ req[a].gateway_called
        /\ req[b].claim_success = "False"
        /\ pc[b] = "done"
        /\ ~req[b].dispatched

\* C28: a request is answered with success only if its own
\* claim_recommendation returned true; then the recommendation is stored
\* claimed by its shop; at most one request per recommendation is answered
\* with success.
C28_SuccessOnlyForTheClaimer ==
    \A r \in Reqs :
        response[r].status = 200
        => LET rid == req[r].recommendation_id
               row == medicine_recommendations[rid]
           IN  /\ req[r].claim_success = "True"
               /\ row.is_claimed
               /\ row.claimed_by_shop_id = req[r].shop_id
               /\ response[r].shop_id = req[r].shop_id
               /\ \A o \in Reqs \ {r} :
                     req[o].recommendation_id = rid => response[o].status # 200

\* a success response beside another shop's "Failed to claim" for the same
\* recommendation
C28_Witness ==
    \E a, b \in Reqs :
        /\ req[a].recommendation_id = req[b].recommendation_id
        /\ response[a].status = 200
        /\ response[b] = ClaimNotSuccessful
        /\ req[a].shop_id # req[b].shop_id

\* C29: when the farmer is not found or has no mobile number, the request
\* makes no gateway call and is answered with success, whatsapp_sent false
\* and "Farmer mobile number not available"; the claim and the item dates
\* are stored.
C29_NoFarmerNumberStillSucceeds ==
    \A r \in Reqs :
        (pc[r] = "done" /\ req[r].notification = "farmer not available")
        => LET rid == req[r].recommendation_id
               row == medicine_recommendations[rid]
           IN  /\ response[r].status = 200
               /\ ~response[r].whatsapp_sent
               /\ response[r].whatsapp_message.text = "Farmer mobile number not available"
               /\ ~req[r].dispatched
               /\ ~req[r].gateway_called
               /\ row.is_claimed
               /\ row.claimed_by_shop_id = req[r].shop_id
               /\ \A i \in ItemsOf(rid) :
                     /\ recommendation_items[i].start_date # Null
                     /\ recommendation_items[i].end_date # Null

\* a request answered without a farmer's number while the dispatcher is enabled
C29_Witness ==
    \E r \in Reqs :
        /\ WHATSAPP_ENABLED
        /\ pc[r] = "done"
        /\ req[r].notification = "farmer not available"
        /\ response[r].status = 200
        /\ response[r].whatsapp_message.text = "Farmer mobile number not available"

(***************************************************************************)
(* Termination and waits of the dispatcher.                                *)
(***************************************************************************)
\* C26: every call of send_whatsapp_message returns, and it makes at most
\* max_retries HTTP calls, for every sequence of gateway outcomes.  Checked
\* under SendLiveSpec.
C26_SendTerminatesWithinMaxRetries ==
    /\ [](send.http_calls <= WHATSAPP_MAX_RETRIES /\ Len(gateway) = send.http_calls)
    /\ <>SendEnded

\* a call that has returned after using every one of three or more attempts
C26_Witness ==
    /\ SendEnded
    /\ WHATSAPP_MAX_RETRIES >= 3
    /\ send.http_calls = WHATSAPP_MAX_RETRIES

\* C30: send_whatsapp_message never waits after its final attempt: every
\* wait is followed by another HTTP call, and a call that made k HTTP calls
\* has made at most k - 1 waits when it returns.  Checked under SendSpec.
C30_NoWaitAfterLastAttempt ==
    /\ Len(send.waits) <= send.http_calls
    /\ (send.returned = "running" /\ send.http_calls >= 1
            /\ Len(send.waits) = send.http_calls)
       => send.attempt < WHATSAPP_MAX_RETRIES
    /\ (SendEnded /\ send.http_calls >= 1)
       => Len(send.waits) <= send.http_calls - 1

\* a call that returned after a timeout on its third and last attempt
C30_Witness ==
    /\ SendEnded
    /\ WHATSAPP_MAX_RETRIES = 3
    /\ Len(gateway) = 3
    /\ gateway[1] = Status(429)
    /\ gateway[2] = ConnectionError
    /\ gateway[3] = Timeout
    /\ Len(send.waits) = 2

====
